---- MODULE Spec2Model ----
(***************************************************************************)
(* Model of the hierarchy merge of WrapVTK: Wrapping/vtkParseMerge.c.      *)
(*                                                                         *)
(* A MergeInfo holds three growing arrays: the class names, the number of  *)
(* overrides of every flattened method and, per method, the array of the   *)
(* registry indices of the classes that declare it.  The flattened class   *)
(* "merge" is the ClassInfo of the root, to which vtkParseMerge_Merge      *)
(* appends the methods of one ancestor ("super") per call.                 *)
(*                                                                         *)
(* C arrays are sequences whose length is the number of allocated slots;   *)
(* element i of the C array is element i+1 of the sequence.  Slots that    *)
(* malloc() returned and the code has not written yet hold a junk value.   *)
(***************************************************************************)
EXTENDS Integers, Sequences, FiniteSets, TLC

(***************************************************************************)
(* Bounds of the model.                                                    *)
(***************************************************************************)
MaxSteps == 2       \* methods that the ancestors declare, over all merges
MaxCalls == 3       \* calls of vtkParseMerge_Merge / vtkParseMerge_PushClass
MaxElems == 17      \* elements that direct calls of the Push functions store
MaxDepth == 4       \* nested calls of vtkWrapXML_MergeHelper the stack holds

(***************************************************************************)
(* Values.                                                                 *)
(***************************************************************************)
NULL == "(null)"        \* the null char pointer
JunkName == "(junk)"    \* an unwritten char* slot
JunkInt == -1           \* an unwritten int slot
JunkChain == << >>      \* an unwritten int* slot

RootName == "D"
ClassNameSet == {"A", "B", "D"}
\* the classes handed to vtkParseMerge_Merge as "super"
SuperNames == ClassNameSet \ {RootName}

\* the name of the destructor of class c: '~' followed by the class name
Tilde(c) == "~" \o c

\* a FunctionInfo, as far as the merge reads or writes it
MkFunction(name, args, virtual, comment, rtype) ==
  [ Name |-> name, NumberOfArguments |-> Len(args), ArgTypes |-> args,
    ReturnType |-> rtype, IsVirtual |-> virtual, Comment |-> comment ]

\* The method declarations the parser may hand over.  Foo(1) comes with
\* every combination of comment and virtual flag that merge_function tells
\* apart and with two return types; Foo(1,2) and Foo(2,1) differ from it in
\* length and from each other in order.  The others are an unnamed entry and
\* methods that carry the name of a class or of its destructor.
FooDecls ==
  { MkFunction("Foo", <<1>>, 0, NULL, 1),
    MkFunction("Foo", <<1>>, 1, "a", 2),
    MkFunction("Foo", <<1>>, 0, "b", 1),
    MkFunction("Foo", <<1, 2>>, 0, NULL, 1),
    MkFunction("Foo", <<2, 1>>, 1, "a", 1) }
FunctionDecls ==
  FooDecls
  \cup { MkFunction(NULL, << >>, 0, NULL, 1),
         MkFunction("A", << >>, 0, NULL, 1),
         MkFunction(Tilde("A"), << >>, 1, NULL, 1),
         MkFunction("D", << >>, 0, "a", 1),
         MkFunction(Tilde("D"), << >>, 1, "a", 1) }

\* a class declares no destructor but its own
DeclaredBy(f, c) ==
  f.Name \in { Tilde(x) : x \in ClassNameSet } => f.Name = Tilde(c)

\* The methods the root class declares itself: none, any one declaration,
\* or one of a few pairs (a signature declared twice, two overloads, an
\* unnamed entry before a method, a constructor with a destructor).
RootFunctionLists ==
  { << >> } \cup { <<f>> : f \in { g \in FunctionDecls : DeclaredBy(g, RootName) } }
  \cup { << MkFunction("Foo", <<1>>, 0, NULL, 1), MkFunction("Foo", <<1>>, 0, "b", 1) >>,
         << MkFunction("Foo", <<1, 2>>, 0, NULL, 1), MkFunction("Foo", <<1>>, 0, NULL, 1) >>,
         << MkFunction(NULL, << >>, 0, NULL, 1), MkFunction("Foo", <<1>>, 1, "a", 2) >>,
         << MkFunction("D", << >>, 0, NULL, 1), MkFunction(Tilde("D"), << >>, 1, NULL, 1) >> }

(***************************************************************************)
(* Helpers for the C arithmetic.                                           *)
(***************************************************************************)
RECURSIVE BitAnd(_, _)
\* a & b for non-negative a, b
BitAnd(a, b) ==
  IF a = 0 \/ b = 0 THEN 0
  ELSE (IF a % 2 = 1 /\ b % 2 = 1 THEN 1 ELSE 0) + 2 * BitAnd(a \div 2, b \div 2)

\* (n & (n-1)) == 0, for n >= 1
PowerOfTwo(n) == BitAnd(n, n - 1) = 0

Min(S) == CHOOSE x \in S : \A y \in S : x <= y

\* a copy loop that stops one element early: "for (i = 0; i < n - 1; i++)"
CopyInto_ShortByOne(m, old, n, junk) ==
  [k \in 1..m |-> IF k < n THEN old[k] ELSE junk]

\* malloc(m * sizeof(elem)) followed by the copy loop "for (i = 0; i < n; i++)"
CopyInto(m, old, n, junk) == [k \in 1..m |-> IF k <= n THEN old[k] ELSE junk]

(***************************************************************************)
(* vtkParseMerge_PushClass                                                 *)
(***************************************************************************)
\* a PushClass that returns the element count when it finds the name
PushClass_ReturnsCount(info, classname) ==
  LET n == info.NumberOfClasses
      found == { i \in 0..(n - 1) : info.ClassNames[i + 1] = classname }
      m0 == IF n = 0 THEN 4 ELSE 0
      m == IF n >= 4 /\ PowerOfTwo(n) THEN 2 * n ELSE m0
      classnames == IF m # 0 THEN CopyInto(m, info.ClassNames, n, JunkName)
                    ELSE info.ClassNames
  IN  IF found # {}
      THEN [info |-> info, ret |-> n]
      ELSE [info |-> [info EXCEPT !.NumberOfClasses = n + 1,
                                  !.ClassNames = [classnames EXCEPT ![n + 1] = classname]],
            ret |-> n]

\* a PushClass whose scan starts at index 1 and so never finds the root
PushClass_ScanFromOne(info, classname) ==
  LET n == info.NumberOfClasses
      found == { i \in 1..(n - 1) : info.ClassNames[i + 1] = classname }
      m0 == IF n = 0 THEN 4 ELSE 0
      m == IF n >= 4 /\ PowerOfTwo(n) THEN 2 * n ELSE m0
      classnames == IF m # 0 THEN CopyInto(m, info.ClassNames, n, JunkName)
                    ELSE info.ClassNames
  IN  IF found # {}
      THEN [info |-> info, ret |-> Min(found)]
      ELSE [info |-> [info EXCEPT !.NumberOfClasses = n + 1,
                                  !.ClassNames = [classnames EXCEPT ![n + 1] = classname]],
            ret |-> n]

PushClass(info, classname) ==
  LET n == info.NumberOfClasses
      found == { i \in 0..(n - 1) : info.ClassNames[i + 1] = classname }
      m0 == IF n = 0 THEN 4 ELSE 0
      m == IF n >= 4 /\ PowerOfTwo(n) THEN 2 * n ELSE m0
      classnames == IF m # 0 THEN CopyInto(m, info.ClassNames, n, JunkName)
                    ELSE info.ClassNames
  IN  IF found # {}
      THEN [info |-> info, ret |-> Min(found)]
      ELSE [info |-> [info EXCEPT !.NumberOfClasses = n + 1,
                                  !.ClassNames = [classnames EXCEPT ![n + 1] = classname]],
            ret |-> n]

(***************************************************************************)
(* vtkParseMerge_PushFunction                                              *)
(***************************************************************************)
PushFunction(info, depth) ==
  LET n == info.NumberOfFunctions
      m == IF n = 0 THEN 4
           ELSE IF n >= 4 /\ PowerOfTwo(n) THEN 2 * n ELSE 0
      overrides == IF m # 0 THEN CopyInto(m, info.NumberOfOverrides, n, JunkInt)
                   ELSE info.NumberOfOverrides
      classes == IF m # 0 THEN CopyInto(m, info.OverrideClasses, n, JunkChain)
                 ELSE info.OverrideClasses
  IN  [info |-> [info EXCEPT !.NumberOfFunctions = n + 1,
                             !.NumberOfOverrides = [overrides EXCEPT ![n + 1] = 1],
                             !.OverrideClasses = [classes EXCEPT ![n + 1] = <<depth>>]],
       ret |-> n]

(***************************************************************************)
(* vtkParseMerge_PushOverride                                              *)
(***************************************************************************)
\* a PushOverride that appends without the scan "Make sure it hasn't already
\* been pushed"
PushOverride_NoScan(info, i, depth) ==
  LET n == info.NumberOfOverrides[i + 1]
      chain == info.OverrideClasses[i + 1]
      classes == IF PowerOfTwo(n) THEN CopyInto(2 * n, chain, n, JunkInt)
                 ELSE chain
  IN  [info |-> [info EXCEPT !.NumberOfOverrides[i + 1] = n + 1,
                             !.OverrideClasses[i + 1] = [classes EXCEPT ![n + 1] = depth]],
       ret |-> n]

PushOverride(info, i, depth) ==
  LET n == info.NumberOfOverrides[i + 1]
      chain == info.OverrideClasses[i + 1]
      found == { j \in 0..(n - 1) : chain[j + 1] = depth }
      classes == IF PowerOfTwo(n) THEN CopyInto(2 * n, chain, n, JunkInt)
                 ELSE chain
  IN  IF found # {}
      THEN [info |-> info, ret |-> i]
      ELSE [info |-> [info EXCEPT !.NumberOfOverrides[i + 1] = n + 1,
                                  !.OverrideClasses[i + 1] = [classes EXCEPT ![n + 1] = depth]],
            ret |-> n]

(***************************************************************************)
(* vtkParseMerge_CreateMergeInfo                                           *)
(***************************************************************************)
\* the MergeInfo right after malloc and the two assignments of 0
NewInfo ==
  [ NumberOfClasses |-> 0, ClassNames |-> << >>,
    NumberOfFunctions |-> 0, NumberOfOverrides |-> << >>,
    OverrideClasses |-> << >> ]

RECURSIVE PushFunctions(_, _, _)
\* the loop "for (i = 0; i < n; i++) vtkParseMerge_PushFunction(info, 0)"
PushFunctions(info, i, n) ==
  IF i >= n THEN info
  ELSE PushFunctions(PushFunction(info, 0).info, i + 1, n)

\* a CreateMergeInfo whose loop starts at i = 1
CreateMergeInfo_FromOne(classInfo) ==
  PushFunctions(PushClass(NewInfo, classInfo.ClassName).info, 1,
                classInfo.NumberOfFunctions)

CreateMergeInfo(classInfo) ==
  PushFunctions(PushClass(NewInfo, classInfo.ClassName).info, 0,
                classInfo.NumberOfFunctions)

(***************************************************************************)
(* copy_function and merge_function                                        *)
(***************************************************************************)
\* memcpy of the struct, then a fresh copy of every string it owns
copy_function(func) ==
  [ Name |-> func.Name, NumberOfArguments |-> func.NumberOfArguments,
    ArgTypes |-> func.ArgTypes, ReturnType |-> func.ReturnType,
    IsVirtual |-> func.IsVirtual, Comment |-> func.Comment ]

\* a merge_function that takes the comment of func whenever func has one
merge_function_Overwrite(merge, func) ==
  [merge EXCEPT
     !.IsVirtual = IF func.IsVirtual # 0 THEN 1 ELSE @,
     !.Comment = IF func.Comment # NULL THEN func.Comment ELSE @]

merge_function(merge, func) ==
  [merge EXCEPT
     !.IsVirtual = IF func.IsVirtual # 0 THEN 1 ELSE @,
     !.Comment = IF func.Comment # NULL /\ @ = NULL THEN func.Comment ELSE @]

(***************************************************************************)
(* vtkParseMerge_Merge                                                     *)
(***************************************************************************)
\* the loop "for (k = 0; k < f2->NumberOfArguments; k++)": the value of k
\* when the loop ends, the first position at which the type codes differ
ArgLoop(f2, func) ==
  LET diff == { k \in 0..(f2.NumberOfArguments - 1) :
                  f2.ArgTypes[k + 1] # func.ArgTypes[k + 1] }
  IN  IF diff = {} THEN f2.NumberOfArguments ELSE Min(diff)

\* "f2->Name && strcmp(f2->Name, func->Name) == 0"
SameName(f2, func) == f2.Name # NULL /\ f2.Name = func.Name

\* the test without the comparison of the argument counts
AllArgsMatch_NoCount(f2, func) ==
  ArgLoop(f2, func) = f2.NumberOfArguments

\* the test that guards merge_function and vtkParseMerge_PushOverride
AllArgsMatch(f2, func) ==
  /\ f2.NumberOfArguments = func.NumberOfArguments
  /\ ArgLoop(f2, func) = f2.NumberOfArguments

\* "constructors and destructors are not inherited"
IsConstructorOrDestructor(func, super) ==
  \/ func.Name = super
  \/ func.Name = Tilde(super)

RECURSIVE OverrideLoop(_, _, _, _, _)
\* a loop that sets "match" only when the argument types match as well
OverrideLoop_MatchOnArgs(st, j, m, func, depth) ==
  IF j >= m THEN st
  ELSE
    LET f2 == st.Functions[j + 1]
        st1 == IF SameName(f2, func) /\ AllArgsMatch(f2, func)
               THEN [st EXCEPT
                       !.Functions[j + 1] = merge_function(f2, func),
                       !.info = PushOverride(st.info, j, depth).info,
                       !.merged = @ \cup {j},
                       !.match = 1]
               ELSE st
    IN  OverrideLoop(st1, j + 1, m, func, depth)

\* the loop "for (j = 0; j < m; j++)" over the flattened methods; st holds
\* the MergeInfo, the flattened methods, the flag "match" and the set of j
\* for which merge_function and vtkParseMerge_PushOverride were called
OverrideLoop(st, j, m, func, depth) ==
  IF j >= m THEN st
  ELSE
    LET f2 == st.Functions[j + 1]
        st1 == IF SameName(f2, func) /\ AllArgsMatch(f2, func)
               THEN [st EXCEPT
                       !.Functions[j + 1] = merge_function(f2, func),
                       !.info = PushOverride(st.info, j, depth).info,
                       !.merged = @ \cup {j}]
               ELSE st
        st2 == IF SameName(f2, func) THEN [st1 EXCEPT !.match = 1] ELSE st1
    IN  OverrideLoop(st2, j + 1, m, func, depth)

\* a pass that stores the copy of an unmatched method in slot 0, in front
\* of the methods the flattened class has
MergeBody_InsertFirst(info, merge, m, super, depth, func, match) ==
  LET st0 == [info |-> info, Functions |-> merge.Functions, match |-> 0,
              merged |-> {}]
      st == OverrideLoop(st0, 0, m, func, depth)
      same == [info |-> info, merge |-> merge, m |-> m, match |-> match,
               merged |-> {}]
  IN  IF func.Name = NULL THEN same
      ELSE IF IsConstructorOrDestructor(func, super) THEN same
      ELSE IF st.match = 0
      THEN [info |-> PushFunction(st.info, depth).info,
            merge |-> [merge EXCEPT
                         !.NumberOfFunctions = m + 1,
                         !.Functions = <<copy_function(func)>> \o st.Functions],
            m |-> m + 1, match |-> 0, merged |-> {}]
      ELSE [info |-> st.info,
            merge |-> [merge EXCEPT !.Functions = st.Functions],
            m |-> m, match |-> 1, merged |-> st.merged]

\* one pass of the loop "for (i = 0; i < n; i++)" for func = super->Functions[i];
\* match is the value the local has when the pass starts ("continue" leaves it)
MergeBody(info, merge, m, super, depth, func, match) ==
  LET st0 == [info |-> info, Functions |-> merge.Functions, match |-> 0,
              merged |-> {}]
      st == OverrideLoop(st0, 0, m, func, depth)
      same == [info |-> info, merge |-> merge, m |-> m, match |-> match,
               merged |-> {}]
  IN  IF func.Name = NULL THEN same
      ELSE IF IsConstructorOrDestructor(func, super) THEN same
      ELSE IF st.match = 0
      THEN [info |-> PushFunction(st.info, depth).info,
            merge |-> [merge EXCEPT
                         !.NumberOfFunctions = m + 1,
                         !.Functions = Append(st.Functions, copy_function(func))],
            m |-> m + 1, match |-> 0, merged |-> {}]
      ELSE [info |-> st.info,
            merge |-> [merge EXCEPT !.Functions = st.Functions],
            m |-> m, match |-> 1, merged |-> st.merged]

(***************************************************************************)
(* The contents of the arrays: the slots below the element counts.         *)
(***************************************************************************)
Max(S) == CHOOSE x \in S : \A y \in S : x >= y

\* the class names stored in the registry, in order
Registry(inf) == [k \in 1..inf.NumberOfClasses |-> inf.ClassNames[k]]

\* the values stored in the override chain of method i
ChainOf(inf, i) ==
  [k \in 1..inf.NumberOfOverrides[i + 1] |-> inf.OverrideClasses[i + 1][k]]

ChainValues(inf, i) == { ChainOf(inf, i)[k] : k \in 1..inf.NumberOfOverrides[i + 1] }

IsPrefix(s, t) == Len(s) <= Len(t) /\ \A k \in 1..Len(s) : s[k] = t[k]

(***************************************************************************)
(* vtkParseMerge_Merge as one call: the loop run to its end.               *)
(***************************************************************************)
\* the one element of a set of one element; Only({ F(x) : x \in {e} }) is
\* F(e) with e evaluated once
Only(S) == CHOOSE y \in S : TRUE

RECURSIVE MergeLoop(_, _, _, _, _, _)
\* the loop "for (i = 0; i < n; i++)"; st holds the MergeInfo, the flattened
\* class, m and match.  alias says that super is the object merge itself,
\* so that super->Functions[i] is read from the class as it is by then.
MergeLoop(st, i, n, super, alias, depth) ==
  IF i >= n THEN st
  ELSE
    LET func == IF alias THEN st.merge.Functions[i + 1] ELSE super.Functions[i + 1]
    IN  Only({ MergeLoop([info |-> r.info, merge |-> r.merge, m |-> r.m,
                          match |-> r.match], i + 1, n, super, alias, depth) :
               r \in { MergeBody(st.info, st.merge, st.m, super.ClassName,
                                 depth, func, st.match) } })

\* a Merge that registers the ancestor and merges none of its methods
Merge_NoMethods(info, merge, super, alias) ==
  LET p == PushClass(info, super.ClassName)
  IN  [info |-> p.info, merge |-> merge, ret |-> p.ret]

Merge(info, merge, super, alias) ==
  Only({ [info |-> st.info, merge |-> st.merge, ret |-> st.depth] :
         st \in { Only({ [depth |-> p.ret] @@
                         MergeLoop([info |-> p.info, merge |-> merge,
                                    m |-> merge.NumberOfFunctions, match |-> 0],
                                   0, super.NumberOfFunctions, super, alias, p.ret) :
                         p \in { PushClass(info, super.ClassName) } }) } })

(***************************************************************************)
(* vtkWrapXML_MergeHelper and vtkWrapXML_MergeSuperClasses.                *)
(*                                                                         *)
(* w is what the walk reads from outside: the option HierarchyFileName,    *)
(* the hierarchy index (class name -> header) and, per header, whether the *)
(* include search finds it, fopen opens it, the parser accepts it, and the *)
(* classes it declares.  st is what the walk has built: the MergeInfo, the *)
(* flattened class, the exit status, and a log of the calls it has made.   *)
(* data is a NamespaceInfo: its classes, and whether it is the namespace   *)
(* the request was made on (whose class number st.root is the root).       *)
(***************************************************************************)
\* a ClassInfo, as far as the walk and the merge read it
MkClass(name, supers, fs) ==
  [ Name |-> name, ClassName |-> name,
    NumberOfSuperClasses |-> Len(supers), SuperClasses |-> supers,
    NumberOfFunctions |-> Len(fs), Functions |-> fs ]

\* the loop "for (i = 0; i < n; i++) if (strcmp(data->Classes[i]->Name,
\* classname) == 0)": the number (from 1) of the class found, 0 for none
FindClass(classes, classname) ==
  LET at == { i \in 1..Len(classes) : classes[i].Name = classname }
  IN  IF at = {} THEN 0 ELSE Min(at)

\* an entry of the log: what was called or found, for which class and
\* header, below which classes (path), with the index of the class in the
\* calling loop or in the registry (ix), and the number of registered
\* classes and of flattened methods at that moment
Event(e, name, header, path, ix, info, merge) ==
  [ e |-> e, name |-> name, header |-> header, path |-> path, ix |-> ix,
    nc |-> info.NumberOfClasses, nf |-> merge.NumberOfFunctions,
    chg |-> FALSE ]

Log(st, e, name, header, path) ==
  [st EXCEPT !.log = Append(@, Event(e, name, header, path, 0, st.info, st.merge))]

\* fprintf(stderr, ...) followed by exit(1)
ExitWith(st, text, file) ==
  [st EXCEPT !.status = "exit", !.code = 1,
             !.diag = Append(@, [text |-> text, file |-> file])]

\* vtkParseHierarchy_FindEntry: the header of the entry, NULL without entry
FindEntry(hinfo, classname) ==
  IF classname \in DOMAIN hinfo THEN hinfo[classname] ELSE NULL

\* vtkParse_FindIncludeFile: the path of the header, NULL if not found
FindIncludeFile(w, header) ==
  IF w.files[header].located THEN "inc/" \o header ELSE NULL

\* vtkParse_ParseFile(filename, fp, stderr): the classes of the file; a
\* file the parser rejects is reported on the error stream and yields NULL
\* (null)
ParseFile(w, st, header, filename) ==
  IF w.files[header].parses
  THEN [null |-> FALSE, Classes |-> w.files[header].Classes, st |-> st]
  ELSE [null |-> TRUE, Classes |-> << >>,
        st |-> [st EXCEPT !.diag =
                  Append(@, [text |-> "syntax error", file |-> filename])]]

\* a load that goes on with an empty file when fopen fails
LoadHeader_OpenUnchecked(w, st, classname, path) ==
  LET header == FindEntry(w.hier, classname)
      filename == FindIncludeFile(w, header)
      st1 == Log(st, "find", classname, header, path)
      st2 == Log(st1, "open", classname, header, path)
      st3 == Log(st2, "parse", classname, header, path)
      parsed == ParseFile(w, st3, header, filename)
      none == [live |-> FALSE, Classes |-> << >>]
  IN  IF header = NULL
      THEN [st |-> Log(st, "noentry", classname, NULL, path), stop |-> TRUE,
            data |-> none]
      ELSE IF filename = NULL
      THEN [st |-> ExitWith(st1, "Couldn't locate header file", header),
            stop |-> TRUE, data |-> none]
      ELSE IF ~w.files[header].opens
      THEN [st |-> st2, stop |-> FALSE, data |-> none]
      ELSE IF parsed.null
      THEN [st |-> [parsed.st EXCEPT !.status = "exit", !.code = 1],
            stop |-> TRUE, data |-> none]
      ELSE [st |-> st3, stop |-> FALSE,
            data |-> [live |-> FALSE, Classes |-> parsed.Classes]]

\* a load that treats a class without index entry as a fatal error
LoadHeader_EntryRequired(w, st, classname, path) ==
  LET header == FindEntry(w.hier, classname)
      filename == FindIncludeFile(w, header)
      st1 == Log(st, "find", classname, header, path)
      st2 == Log(st1, "open", classname, header, path)
      st3 == Log(st2, "parse", classname, header, path)
      parsed == ParseFile(w, st3, header, filename)
      none == [live |-> FALSE, Classes |-> << >>]
  IN  IF header = NULL
      THEN [st |-> ExitWith(Log(st, "noentry", classname, NULL, path),
                            "No entry for class", classname),
            stop |-> TRUE, data |-> none]
      ELSE IF filename = NULL
      THEN [st |-> ExitWith(st1, "Couldn't locate header file", header),
            stop |-> TRUE, data |-> none]
      ELSE IF ~w.files[header].opens
      THEN [st |-> ExitWith(st2, "Couldn't open header file", header),
            stop |-> TRUE, data |-> none]
      ELSE IF parsed.null
      THEN [st |-> [parsed.st EXCEPT !.status = "exit", !.code = 1],
            stop |-> TRUE, data |-> none]
      ELSE [st |-> st3, stop |-> FALSE,
            data |-> [live |-> FALSE, Classes |-> parsed.Classes]]

\* the body of "if (n > 0 && !cinfo)" up to "data = finfo->Contents":
\* stop says that the function has returned or the process has exited
LoadHeader(w, st, classname, path) ==
  LET header == FindEntry(w.hier, classname)
      filename == FindIncludeFile(w, header)
      st1 == Log(st, "find", classname, header, path)
      st2 == Log(st1, "open", classname, header, path)
      st3 == Log(st2, "parse", classname, header, path)
      parsed == ParseFile(w, st3, header, filename)
      none == [live |-> FALSE, Classes |-> << >>]
  IN  IF header = NULL
      THEN [st |-> Log(st, "noentry", classname, NULL, path), stop |-> TRUE,
            data |-> none]
      ELSE IF filename = NULL
      THEN [st |-> ExitWith(st1, "Couldn't locate header file", header),
            stop |-> TRUE, data |-> none]
      ELSE IF ~w.files[header].opens
      THEN [st |-> ExitWith(st2, "Couldn't open header file", header),
            stop |-> TRUE, data |-> none]
      ELSE IF parsed.null
      THEN [st |-> [parsed.st EXCEPT !.status = "exit", !.code = 1],
            stop |-> TRUE, data |-> none]
      ELSE [st |-> st3, stop |-> FALSE,
            data |-> [live |-> FALSE, Classes |-> parsed.Classes]]

RECURSIVE MergeHelper(_, _, _, _, _)
RECURSIVE Visit(_, _, _, _, _, _)
RECURSIVE SuperLoop(_, _, _, _, _, _)

\* a visit that walks the superclasses of the class found before it merges
\* the class
Visit_BasesFirst(w, st, data, i, classname, path) ==
  IF i = 0 THEN Log(st, "noclass", classname, NULL, path)
  ELSE
    LET alias == data.live /\ i = st.root
        cinfo == IF alias THEN st.merge ELSE data.Classes[i]
    IN  Only({ IF st1.status # "run" THEN st1
               ELSE Only({ [st1 EXCEPT !.info = r.info, !.merge = r.merge,
                                       !.log = Append(@, Event("merge", classname, NULL,
                                                   path, r.ret, r.info, r.merge))] :
                           r \in { Merge(st1.info, st1.merge, cinfo, alias) } }) :
               st1 \in { SuperLoop(w, st, data, cinfo.SuperClasses, 0,
                                   Append(path, classname)) } })

\* "if (cinfo)": the merge of the class found (number i of data, 0 for
\* none) and the recursion over its superclasses
Visit(w, st, data, i, classname, path) ==
  IF i = 0 THEN Log(st, "noclass", classname, NULL, path)
  ELSE
    LET alias == data.live /\ i = st.root
        cinfo == IF alias THEN st.merge ELSE data.Classes[i]
    IN  Only({ SuperLoop(w, st1, data, cinfo.SuperClasses, 0,
                         Append(path, classname)) :
               st1 \in { [st EXCEPT !.info = r.info, !.merge = r.merge,
                                    !.log = Append(@,
                                      [Event("merge", classname, NULL,
                                             path, r.ret, r.info, r.merge)
                                         EXCEPT !.chg = (r.info # st.info
                                                         \/ r.merge # st.merge)])] :
                         r \in { Merge(st.info, st.merge, cinfo, alias) } } })

\* a loop that walks the first superclass only
SuperLoop_FirstOnly(w, st, data, supers, i, path) ==
  IF i >= 1 \/ i >= Len(supers) \/ st.status # "run" THEN st
  ELSE Only({ SuperLoop(w, st1, data, supers, i + 1, path) :
              st1 \in { MergeHelper(w,
                          [st EXCEPT !.log = Append(@, Event("call", supers[i + 1],
                                              NULL, path, i, st.info, st.merge))],
                          data, supers[i + 1], path) } })

\* the loop "for (i = 0; i < n; i++) vtkWrapXML_MergeHelper(data, hinfo,
\* SuperClasses[i], ...)"; the calls below path are Len(path) deep
SuperLoop(w, st, data, supers, i, path) ==
  IF i >= Len(supers) \/ st.status # "run" THEN st
  ELSE Only({ SuperLoop(w, st1, data, supers, i + 1, path) :
              st1 \in { MergeHelper(w,
                          [st EXCEPT !.log = Append(@, Event("call", supers[i + 1],
                                              NULL, path, i, st.info, st.merge))],
                          data, supers[i + 1], path) } })

\* vtkWrapXML_MergeHelper(data, hinfo, classname, hintfile, info, merge);
\* the stack of the process holds MaxDepth nested calls
MergeHelper(w, st, data, classname, path) ==
  IF Len(path) > MaxDepth
  THEN [Log(st, "overflow", classname, NULL, path) EXCEPT !.status = "overflow"]
  ELSE
    LET i == FindClass(data.Classes, classname)
    IN  IF Len(data.Classes) > 0 /\ i = 0
        THEN Only({ IF ld.stop THEN ld.st
                    ELSE Visit(w, ld.st, ld.data,
                               FindClass(ld.data.Classes, classname),
                               classname, path) :
                    ld \in { LoadHeader(w, st, classname, path) } })
        ELSE Visit(w, st, data, i, classname, path)

\* the locals of vtkWrapXML_MergeSuperClasses before its loop
WalkStart(classInfo, root) ==
  [ info |-> CreateMergeInfo(classInfo), merge |-> classInfo,
    root |-> root, created |-> TRUE, status |-> "run", code |-> 0,
    log |-> << >>, diag |-> << >> ]

\* a MergeSuperClasses that walks whether or not the option is set
MergeSuperClasses_Always(w, classes, root) ==
  Only({ SuperLoop(w, st0, [live |-> TRUE, Classes |-> classes],
                   classes[root].SuperClasses, 0, <<classes[root].Name>>) :
         st0 \in { WalkStart(classes[root], root) } })

\* vtkWrapXML_MergeSuperClasses(data, classInfo) for classInfo = class
\* number root of data; created says that a MergeInfo is returned
MergeSuperClasses(w, classes, root) ==
  IF w.HierarchyFileName
  THEN Only({ SuperLoop(w, st0, [live |-> TRUE, Classes |-> classes],
                        classes[root].SuperClasses, 0, <<classes[root].Name>>) :
              st0 \in { WalkStart(classes[root], root) } })
  ELSE [ info |-> NewInfo, merge |-> classes[root], root |-> root,
         created |-> FALSE, status |-> "run", code |-> 0,
         log |-> << >>, diag |-> << >> ]

(***************************************************************************)
(* The inputs of a run of the wrapper: four classes, the main class D      *)
(* among them, their base classes, the file that declares each, their      *)
(* methods, the option HierarchyFileName, and at most one fault: a class   *)
(* without index entry, or a header that the include search does not find, *)
(* that cannot be opened, that does not parse, or that parses and does not *)
(* declare the class.                                                      *)
(***************************************************************************)
WalkNames == {"A", "B", "C", "D"}
WalkOrder == << "A", "B", "C", "D" >>
MainFile == "main.h"

\* the base classes: a diamond, a chain, two siblings, and two cycles
Shapes ==
  { [A |-> << >>, B |-> <<"A">>, C |-> <<"A">>, D |-> <<"B", "C">>],
    [A |-> << >>, B |-> <<"A">>, C |-> <<"B">>, D |-> <<"C">>],
    [A |-> << >>, B |-> <<"A">>, C |-> << >>, D |-> <<"C", "B">>],
    [A |-> <<"A">>, B |-> << >>, C |-> << >>, D |-> <<"A">>],
    [A |-> << >>, B |-> <<"D">>, C |-> << >>, D |-> <<"B">>] }

\* the file that declares each class
Placements ==
  { [A |-> MainFile, B |-> MainFile, C |-> MainFile, D |-> MainFile],
    [A |-> "A.h", B |-> "B.h", C |-> "C.h", D |-> MainFile],
    [A |-> "A.h", B |-> MainFile, C |-> "C.h", D |-> MainFile],
    [A |-> "AB.h", B |-> "AB.h", C |-> "C.h", D |-> MainFile],
    [A |-> MainFile, B |-> MainFile, C |-> "C.h", D |-> MainFile] }

\* the methods each class declares
MethodLists ==
  { [A |-> << MkFunction("Foo", <<1>>, 1, "a", 2), MkFunction("Bar", << >>, 0, NULL, 1) >>,
     B |-> << MkFunction("Foo", <<1>>, 0, NULL, 1) >>,
     C |-> << MkFunction("Bar", << >>, 0, "c", 1), MkFunction("Foo", <<1, 2>>, 0, NULL, 1) >>,
     D |-> << MkFunction("Foo", <<1>>, 0, "b", 1) >>],
    [A |-> << MkFunction("A", << >>, 0, NULL, 1), MkFunction(Tilde("A"), << >>, 1, NULL, 1),
              MkFunction("Foo", <<1>>, 0, NULL, 1) >>,
     B |-> << MkFunction("B", << >>, 0, NULL, 1), MkFunction("Foo", <<1, 2>>, 0, NULL, 1) >>,
     C |-> << MkFunction("Foo", <<2, 1>>, 0, NULL, 1), MkFunction("Bar", << >>, 0, NULL, 1) >>,
     D |-> << MkFunction("D", << >>, 0, NULL, 1), MkFunction(Tilde("D"), << >>, 1, NULL, 1) >>],
    [A |-> << MkFunction("Bar", << >>, 1, NULL, 1) >>,
     B |-> << >>,
     C |-> << MkFunction(NULL, << >>, 0, NULL, 1), MkFunction("Bar", << >>, 0, "c", 1) >>,
     D |-> << >>] }

FaultKinds == {"noentry", "missing", "unopenable", "unparseable", "noclass"}
NoFault == [name |-> NULL, kind |-> "none"]
Faults ==
  {NoFault} \cup { [name |-> c, kind |-> k] : c \in {"A", "B", "C"}, k \in FaultKinds }

\* the classes that header h declares, in the order of the file
ClassesOf(shape, place, methods, fault, h) ==
  LET here == SelectSeq(WalkOrder,
                LAMBDA c : place[c] = h /\ ~(fault.kind = "noclass" /\ fault.name = c))
  IN  [k \in 1..Len(here) |-> MkClass(here[k], shape[here[k]], methods[here[k]])]

MkWorld(shape, place, methods, fault, hfn) ==
  LET hit(h, kind) == fault.kind = kind /\ place[fault.name] = h
  IN  [ HierarchyFileName |-> hfn,
        hier |-> [c \in { x \in WalkNames :
                            ~(fault.kind = "noentry" /\ fault.name = x) }
                    |-> place[c]],
        files |-> [h \in { place[c] : c \in WalkNames } |->
                     [ located |-> ~hit(h, "missing"),
                       opens |-> ~hit(h, "unopenable"),
                       parses |-> ~hit(h, "unparseable"),
                       Classes |-> ClassesOf(shape, place, methods, fault, h) ]] ]

\* the faults are faults of headers other than the input file, and matter
\* only to a run that reads the hierarchy index
Worlds ==
  { MkWorld(shape, place, methods, fault, hfn) :
      shape \in Shapes, place \in Placements, methods \in MethodLists,
      fault \in { f \in Faults : f.kind = "none" \/ f.kind = "noentry" },
      hfn \in BOOLEAN }
  \cup
  { MkWorld(shape, place, methods, fault, TRUE) :
      shape \in Shapes,
      place \in { p \in Placements : p["A"] # MainFile },
      methods \in MethodLists,
      fault \in { f \in Faults : f.kind \notin {"none", "noentry"}
                                 /\ f.name \in {"A", "C"} } }

(***************************************************************************)
(* State.                                                                  *)
(***************************************************************************)
VARIABLES
  pc,      \* "new" before vtkParseMerge_CreateMergeInfo, "idle" between
           \* calls, "merge" inside the loop of vtkParseMerge_Merge
  info,    \* the MergeInfo
  merge,   \* the flattened class: the ClassInfo of the root
  frame,   \* the locals of the running vtkParseMerge_Merge
  op,      \* the last call made by the caller, with its arguments
  ret,     \* the value the last completed call returned
  calls,   \* number of calls made so far
  steps,   \* number of ancestor methods handed to vtkParseMerge_Merge so far
  world,   \* the options, the hierarchy index and the headers of the run
  data,    \* the classes of the input file, as vtkParse_ParseFile left them
           \* and the requests have changed them
  walk,    \* the request in progress: the number of its class in data,
           \* how its walk ended, its log, and what was printed
  heap     \* the allocations behind the strings of the FunctionInfos of one
           \* call of vtkParseMerge_Merge, and the two method arrays as
           \* structs of pointers into them

vars == <<pc, info, merge, frame, op, ret, calls, steps, world, data, walk, heap>>

NoWorld == [HierarchyFileName |-> FALSE, hier |-> << >>, files |-> << >>]
NoHeap ==
  [ cells |-> << >>, decl |-> << >>, ClassName |-> NULL, super |-> << >>,
    merge |-> << >>, capacity |-> 0, from |-> << >>, fill |-> << >>,
    i |-> 0 ]
NoWalk ==
  [ next |-> 1, created |-> FALSE, status |-> "none", code |-> 0,
    log |-> << >>, diag |-> << >>, served |-> 0, out |-> << >> ]

NoFrame ==
  [ super |-> NULL, n |-> 0, i |-> 0, m |-> 0, depth |-> 0,
    func |-> MkFunction(NULL, << >>, 0, NULL, 1),
    match |-> 0, merged |-> {} ]
NoOp == [fn |-> "none", name |-> NULL, i |-> 0, depth |-> 0]

\* the ClassInfo the parser hands over for the root
RootClasses ==
  { [ClassName |-> RootName, NumberOfFunctions |-> Len(fs), Functions |-> fs] :
      fs \in RootFunctionLists }

Init ==
  /\ pc = "new"
  /\ info = NewInfo
  /\ merge \in RootClasses
  /\ frame = NoFrame
  /\ op = NoOp
  /\ ret = 0
  /\ calls = 0
  /\ steps = 0
  /\ world = NoWorld
  /\ data = << >>
  /\ walk = NoWalk
  /\ heap = NoHeap

\* info = vtkParseMerge_CreateMergeInfo(classInfo)
CreateMergeInfoCall ==
  /\ pc = "new"
  /\ info' = CreateMergeInfo(merge)
  /\ pc' = "idle"
  /\ op' = [NoOp EXCEPT !.fn = "CreateMergeInfo"]
  /\ UNCHANGED <<merge, frame, ret, calls, steps, world, data, walk, heap>>

\* a direct call vtkParseMerge_PushClass(info, classname)
PushClassCall(classname) ==
  /\ pc = "idle"
  /\ calls < MaxCalls
  /\ LET r == PushClass(info, classname)
     IN  /\ info' = r.info
         /\ ret' = r.ret
  /\ op' = [NoOp EXCEPT !.fn = "PushClass", !.name = classname]
  /\ calls' = calls + 1
  /\ UNCHANGED <<pc, merge, frame, steps, world, data, walk, heap>>

\* vtkParseMerge_Merge(info, merge, super) up to the head of its loop
MergeCall(super, n) ==
  /\ pc = "idle"
  /\ calls < MaxCalls
  /\ LET r == PushClass(info, super)
     IN  /\ info' = r.info
         /\ frame' = [NoFrame EXCEPT !.super = super, !.n = n,
                                     !.m = merge.NumberOfFunctions,
                                     !.depth = r.ret]
  /\ pc' = "merge"
  /\ op' = [NoOp EXCEPT !.fn = "Merge", !.name = super]
  /\ calls' = calls + 1
  /\ steps' = steps + n
  /\ UNCHANGED <<merge, ret, world, data, walk, heap>>

\* one pass of the loop of vtkParseMerge_Merge, for the method func that
\* super->Functions[i] holds.  super is const and pass i is the only reader
\* of Functions[i], so the declaration is drawn when the loop reads it.
\* frame.merged records the j for which this pass called merge_function and
\* vtkParseMerge_PushOverride.
MergeStep(func) ==
  /\ pc = "merge"
  /\ frame.i < frame.n
  /\ LET r == MergeBody(info, merge, frame.m, frame.super, frame.depth, func,
                        frame.match)
     IN  /\ info' = r.info
         /\ merge' = r.merge
         /\ frame' = [frame EXCEPT !.i = @ + 1, !.m = r.m, !.func = func,
                                   !.match = r.match, !.merged = r.merged]
  /\ UNCHANGED <<pc, op, ret, calls, steps, world, data, walk, heap>>

\* the loop is over: "return depth"
MergeReturn ==
  /\ pc = "merge"
  /\ frame.i >= frame.n
  /\ ret' = frame.depth
  /\ pc' = "idle"
  /\ frame' = NoFrame
  /\ UNCHANGED <<info, merge, op, calls, steps, world, data, walk, heap>>

Next ==
  \/ CreateMergeInfoCall
  \/ \E c \in ClassNameSet : PushClassCall(c)
  \/ \E c \in SuperNames, n \in 0..(MaxSteps - steps) : MergeCall(c, n)
  \/ \E f \in FunctionDecls : DeclaredBy(f, frame.super) /\ MergeStep(f)
  \/ MergeReturn

Spec == Init /\ [][Next]_vars

(***************************************************************************)
(* Direct calls of the three Push functions on one MergeInfo, until the    *)
(* arrays hold MaxElems elements together, which takes every array through *)
(* its reallocations at 4, 8 and 16 elements.  Class names are numbered by *)
(* first use: a call passes the first or the last name stored, or the      *)
(* first unused name of NamePool.  The chains of the methods ChainTargets  *)
(* are pushed their first or largest value, or their largest value + 1.    *)
(***************************************************************************)
NamePool ==
  << "D", "A", "B", "C", "E", "F", "G", "H", "I", "J",
     "K", "L", "M", "N", "O", "P", "Q", "R", "S", "T" >>

ChainTargets == {0, 1}

RECURSIVE SumOverrides(_, _)
\* NumberOfOverrides[0] + ... + NumberOfOverrides[n-1]
SumOverrides(inf, n) ==
  IF n = 0 THEN 0 ELSE inf.NumberOfOverrides[n] + SumOverrides(inf, n - 1)

\* the number of elements the three kinds of array hold
Stored(inf) == inf.NumberOfClasses + SumOverrides(inf, inf.NumberOfFunctions)

InitPush ==
  /\ pc = "push"
  /\ info = NewInfo
  /\ merge = [ClassName |-> RootName, NumberOfFunctions |-> 0, Functions |-> << >>]
  /\ frame = NoFrame
  /\ op = NoOp
  /\ ret = 0
  /\ calls = 0
  /\ steps = 0
  /\ world = NoWorld
  /\ data = << >>
  /\ walk = NoWalk
  /\ heap = NoHeap

\* vtkParseMerge_PushClass(info, classname)
DirectPushClass(classname) ==
  /\ pc = "push"
  /\ LET r == PushClass(info, classname)
     IN  /\ info' = r.info
         /\ ret' = r.ret
  /\ op' = [NoOp EXCEPT !.fn = "PushClass", !.name = classname]
  /\ UNCHANGED <<pc, merge, frame, calls, steps, world, data, walk, heap>>

\* vtkParseMerge_PushFunction(info, depth)
DirectPushFunction(depth) ==
  /\ pc = "push"
  /\ LET r == PushFunction(info, depth)
     IN  /\ info' = r.info
         /\ ret' = r.ret
  /\ op' = [NoOp EXCEPT !.fn = "PushFunction", !.depth = depth]
  /\ UNCHANGED <<pc, merge, frame, calls, steps, world, data, walk, heap>>

\* vtkParseMerge_PushOverride(info, i, depth)
DirectPushOverride(i, depth) ==
  /\ pc = "push"
  /\ LET r == PushOverride(info, i, depth)
     IN  /\ info' = r.info
         /\ ret' = r.ret
  /\ op' = [NoOp EXCEPT !.fn = "PushOverride", !.i = i, !.depth = depth]
  /\ UNCHANGED <<pc, merge, frame, calls, steps, world, data, walk, heap>>

NextPush ==
  \/ \E k \in {1, info.NumberOfClasses, info.NumberOfClasses + 1} :
       /\ k \in 1..Len(NamePool)
       /\ k <= info.NumberOfClasses \/ Stored(info) < MaxElems
       /\ DirectPushClass(NamePool[k])
  \/ \E d \in 0..1 :
       /\ d = 0 \/ info.NumberOfFunctions = 1
       /\ Stored(info) < MaxElems
       /\ DirectPushFunction(d)
  \/ \E i \in ChainTargets :
       /\ i < info.NumberOfFunctions
       /\ \E d \in {ChainOf(info, i)[1], Max(ChainValues(info, i)),
                    Max(ChainValues(info, i)) + 1} :
            /\ d \in ChainValues(info, i) \/ Stored(info) < MaxElems
            /\ DirectPushOverride(i, d)

SpecPush == InitPush /\ [][NextPush]_vars

(***************************************************************************)
(* A run of the wrapper: vtkWrapXML_Body calls vtkWrapXML_Class for the    *)
(* classes of the input file in the order of the file.  The flattened      *)
(* class of a request is the ClassInfo of the file itself.                 *)
(***************************************************************************)
InitWalk ==
  /\ pc = "wrap"
  /\ world \in Worlds
  /\ data = world.files[MainFile].Classes
  /\ walk = NoWalk
  /\ heap = NoHeap
  /\ info = NewInfo
  /\ merge = [ClassName |-> RootName, NumberOfFunctions |-> 0, Functions |-> << >>]
  /\ frame = NoFrame
  /\ op = NoOp
  /\ ret = 0
  /\ calls = 0
  /\ steps = 0

\* vtkWrapXML_Class up to "merge = vtkWrapXML_MergeSuperClasses(data,
\* classInfo)" for the next class of the file; exit(1) and the end of the
\* stack end the process
ClassRequest ==
  /\ pc = "wrap"
  /\ walk.next <= Len(data)
  /\ IF data[walk.next].NumberOfSuperClasses > 0
     THEN \E r \in { MergeSuperClasses(world, data, walk.next) } :
            /\ info' = r.info
            /\ merge' = r.merge
            /\ data' = [data EXCEPT ![walk.next] = r.merge]
            /\ walk' = [walk EXCEPT !.created = r.created,
                                    !.status = IF r.status = "run" THEN "returned"
                                               ELSE r.status,
                                    !.code = r.code, !.log = r.log,
                                    !.diag = r.diag, !.out = << >>]
            /\ pc' = IF r.status = "run" THEN "print" ELSE "exited"
     ELSE /\ info' = NewInfo
          /\ merge' = data[walk.next]
          /\ data' = data
          /\ walk' = [walk EXCEPT !.created = FALSE, !.status = "returned",
                                  !.code = 0, !.log = << >>,
                                  !.diag = << >>, !.out = << >>]
          /\ pc' = "print"
  /\ UNCHANGED <<frame, op, ret, calls, steps, world, heap>>

\* the rest of vtkWrapXML_Class: vtkWrapXML_ClassInheritance if there is a
\* MergeInfo, vtkWrapXML_MethodHelper for every method, which looks up the
\* class at the head of the method's chain, and vtkParseMerge_FreeMergeInfo
ClassOutput ==
  /\ pc = "print"
  /\ walk' = [walk EXCEPT
       !.next = @ + 1,
       !.served = IF walk.created THEN @ + 1 ELSE @,
       !.out = IF walk.created
               THEN [j \in 1..merge.NumberOfFunctions |->
                       IF info.NumberOfOverrides[j] # 0
                       THEN info.ClassNames[info.OverrideClasses[j][1] + 1]
                       ELSE NULL]
               ELSE [j \in 1..merge.NumberOfFunctions |-> NULL]]
  /\ pc' = "wrap"
  /\ UNCHANGED <<info, merge, frame, op, ret, calls, steps, world, data, heap>>

NextWalk ==
  \/ ClassRequest
  \/ ClassOutput

SpecWalk == InitWalk /\ [][NextWalk]_vars

(***************************************************************************)
(* The strings of the FunctionInfos as allocations.                        *)
(*                                                                         *)
(* heap.cells is the sequence of the allocations made so far; a char       *)
(* pointer is the number of an allocation, NullPtr for the null pointer.   *)
(* Every allocation carries its characters, whether it has been freed, and *)
(* who allocated it: the parser for the file of the root ("root"), the     *)
(* parser for the file of the ancestor ("super"), or vtkParseMerge.c       *)
(* ("merge").  A FunctionInfo is here a struct of such pointers.           *)
(***************************************************************************)
\* the number of slots an array of n elements has when it is grown as
\* vtkParseMerge_PushClass grows it: none, then 4, then twice as many
\* whenever n has reached a power of two
PolicyCapacity(n) ==
  IF n = 0 THEN 0 ELSE Min({ c \in {4, 8, 16, 32} : c >= n })

NullPtr == 0
Freed == "(freed)"      \* what a freed allocation holds

\* malloc(strlen(text)+1) followed by strcpy of text
Alloc(cells, text, by) ==
  Append(cells, [text |-> text, live |-> TRUE, by |-> by])

\* the characters behind a char pointer
TextOf(cells, p) == IF p = NullPtr THEN NULL ELSE cells[p].text

\* "if (p) { q = malloc(strlen(p)+1); strcpy(q, p); }": the pointer stays
\* as memcpy left it when it is null
CopyString(cells, p) ==
  IF p = NullPtr THEN [cells |-> cells, p |-> p]
  ELSE [cells |-> Alloc(cells, cells[p].text, "merge"), p |-> Len(cells) + 1]

RECURSIVE CopyArgClasses(_, _, _, _)
\* the loop "for (i = 0; i < func->NumberOfArguments; i++)" of copy_function
CopyArgClasses(cells, args, i, n) ==
  IF i >= n THEN [cells |-> cells, args |-> args]
  ELSE LET c == CopyString(cells, args[i + 1])
       IN  CopyArgClasses(c.cells, [args EXCEPT ![i + 1] = c.p], i + 1, n)

\* a copy_function without its last "if": the signature stays as memcpy
\* left it
copy_function_mem_SharedSignature(cells, func) ==
  LET nm == CopyString(cells, func.Name)
      ac == CopyArgClasses(nm.cells, func.ArgClasses, 0, func.NumberOfArguments)
      rc == CopyString(ac.cells, func.ReturnClass)
      cm == CopyString(rc.cells, func.Comment)
  IN  [ cells |-> cm.cells,
        f |-> [func EXCEPT !.Name = nm.p, !.ArgClasses = ac.args,
                           !.ReturnClass = rc.p, !.Comment = cm.p] ]

\* copy_function on the allocations: memcpy of the struct, then one new
\* allocation for each string that is not null
copy_function_mem(cells, func) ==
  LET nm == CopyString(cells, func.Name)
      ac == CopyArgClasses(nm.cells, func.ArgClasses, 0, func.NumberOfArguments)
      rc == CopyString(ac.cells, func.ReturnClass)
      cm == CopyString(rc.cells, func.Comment)
      sg == CopyString(cm.cells, func.Signature)
  IN  [ cells |-> sg.cells,
        f |-> [func EXCEPT !.Name = nm.p, !.ArgClasses = ac.args,
                           !.ReturnClass = rc.p, !.Comment = cm.p,
                           !.Signature = sg.p] ]

\* a merge_function that stores the pointer of func instead of copying
merge_function_mem_SharedComment(cells, f2, func) ==
  [ cells |-> cells,
    f |-> [f2 EXCEPT !.IsVirtual = IF func.IsVirtual # 0 THEN 1 ELSE @,
                     !.Comment = IF func.Comment # NullPtr /\ @ = NullPtr
                                 THEN func.Comment ELSE @] ]

\* merge_function on the allocations
merge_function_mem(cells, f2, func) ==
  LET cm == IF func.Comment # NullPtr /\ f2.Comment = NullPtr
            THEN CopyString(cells, func.Comment)
            ELSE [cells |-> cells, p |-> f2.Comment]
  IN  [ cells |-> cm.cells,
        f |-> [f2 EXCEPT !.IsVirtual = IF func.IsVirtual # 0 THEN 1 ELSE @,
                         !.Comment = cm.p] ]

\* the loop "for (k = 0; k < f2->NumberOfArguments; k++)" ran to its end
AllArgsMatchMem(f2, func) ==
  /\ f2.NumberOfArguments = func.NumberOfArguments
  /\ \A k \in 1..f2.NumberOfArguments : f2.ArgTypes[k] = func.ArgTypes[k]

RECURSIVE MatchLoopMem(_, _, _, _)
\* the loop "for (j = 0; j < m; j++)" of vtkParseMerge_Merge for the
\* ancestor method func, number i of its class; st.match is the local match
MatchLoopMem(st, func, i, j) ==
  IF j >= Len(st.merge) THEN st
  ELSE
    LET f2 == st.merge[j + 1]
        same == /\ f2.Name # NullPtr
                /\ TextOf(st.cells, f2.Name) = TextOf(st.cells, func.Name)
        m == merge_function_mem(st.cells, f2, func)
        next ==
          IF same /\ AllArgsMatchMem(f2, func)
          THEN [st EXCEPT !.cells = m.cells,
                          !.merge[j + 1] = m.f,
                          !.fill[j + 1] = IF m.f.Comment # f2.Comment THEN i ELSE @,
                          !.match = 1]
          ELSE [st EXCEPT !.match = IF same THEN 1 ELSE @]
    IN  MatchLoopMem(next, func, i, j + 1)

\* one pass of the loop "for (i = 0; i < n; i++)" of vtkParseMerge_Merge
\* for the ancestor method number i
MergeMemBody(h, i) ==
  LET func == h.super[i]
      name == TextOf(h.cells, func.Name)
      st == MatchLoopMem([cells |-> h.cells, merge |-> h.merge,
                          fill |-> h.fill, match |-> 0], func, i, 0)
      c == copy_function_mem(st.cells, func)
  IN  IF func.Name = NullPtr \/ name = h.ClassName \/ name = Tilde(h.ClassName)
      THEN [h EXCEPT !.i = i]
      ELSE IF st.match # 0
      THEN [h EXCEPT !.cells = st.cells, !.merge = st.merge,
                     !.fill = st.fill, !.i = i]
      ELSE [h EXCEPT !.cells = c.cells,
                     !.merge = Append(st.merge, c.f),
                     !.from = Append(h.from, i),
                     !.fill = Append(st.fill, 0),
                     !.i = i]

\* the release of the declaration tree of the ancestor: every allocation
\* the parser made for its file is freed
FreeTree(cells, by) ==
  [ k \in 1..Len(cells) |->
      IF cells[k].by = by
      THEN [cells[k] EXCEPT !.text = Freed, !.live = FALSE]
      ELSE cells[k] ]

(***************************************************************************)
(* The declarations of the memory scenarios.                               *)
(***************************************************************************)
MkDecl(name, argclasses, argtypes, rclass, comment, sig, virtual) ==
  [ Name |-> name, NumberOfArguments |-> Len(argtypes),
    ArgClasses |-> argclasses, ArgTypes |-> argtypes, ReturnClass |-> rclass,
    Comment |-> comment, Signature |-> sig, IsVirtual |-> virtual ]

FooFull ==
  MkDecl("Foo", <<"vtkObject", NULL>>, <<1, 2>>, "vtkObject", "a",
         "vtkObject *Foo(vtkObject *, int)", 1)
FooBare == MkDecl("Foo", <<NULL, NULL>>, <<1, 2>>, NULL, NULL, "int Foo(int, int)", 0)
FooOther == MkDecl("Foo", <<NULL>>, <<2>>, NULL, "b", "int Foo(int)", 0)
BarFull == MkDecl("Bar", <<"vtkObject">>, <<1>>, "vtkObject", "c", "vtkObject *Bar(vtkObject *)", 0)
BarBare == MkDecl("Bar", << >>, << >>, NULL, NULL, NULL, 1)

\* what the ancestor A may declare, and what the root D may
SuperDecls ==
  { FooFull, FooBare, BarFull, BarBare,
    MkDecl(NULL, << >>, << >>, NULL, NULL, NULL, 0),
    MkDecl("A", << >>, << >>, NULL, "d", "A()", 0),
    MkDecl(Tilde("A"), << >>, << >>, NULL, NULL, "~A()", 1) }
SuperDeclLists ==
  { <<f>> : f \in SuperDecls } \cup { <<f, g>> : f, g \in SuperDecls }
RootDeclLists ==
  { << >>, <<FooBare>>, <<FooOther>>, <<FooFull, BarBare>>,
    <<FooFull, FooBare, FooOther, MkDecl(NULL, << >>, << >>, NULL, NULL, NULL, 0)>> }

RECURSIVE AllocArgClasses(_, _, _, _)
\* the parser allocates the class name of every argument that has one
AllocArgClasses(cells, args, k, by) ==
  IF k > Len(args) THEN [cells |-> cells, args |-> args]
  ELSE IF args[k] = NULL
  THEN AllocArgClasses(cells, [args EXCEPT ![k] = NullPtr], k + 1, by)
  ELSE AllocArgClasses(Alloc(cells, args[k], by),
                       [args EXCEPT ![k] = Len(cells) + 1], k + 1, by)

\* the parser allocates a string unless the declaration has none
AllocString(cells, text, by) ==
  IF text = NULL THEN [cells |-> cells, p |-> NullPtr]
  ELSE [cells |-> Alloc(cells, text, by), p |-> Len(cells) + 1]

\* the FunctionInfo the parser builds for one declaration
AllocDecl(cells, d, by) ==
  LET nm == AllocString(cells, d.Name, by)
      ac == AllocArgClasses(nm.cells, d.ArgClasses, 1, by)
      rc == AllocString(ac.cells, d.ReturnClass, by)
      cm == AllocString(rc.cells, d.Comment, by)
      sg == AllocString(cm.cells, d.Signature, by)
  IN  [ cells |-> sg.cells,
        f |-> [d EXCEPT !.Name = nm.p, !.ArgClasses = ac.args,
                        !.ReturnClass = rc.p, !.Comment = cm.p,
                        !.Signature = sg.p] ]

RECURSIVE AllocDecls(_, _, _, _)
\* the Functions array the parser builds for a list of declarations
AllocDecls(cells, ds, fs, by) ==
  IF Len(fs) >= Len(ds) THEN [cells |-> cells, fs |-> fs]
  ELSE LET a == AllocDecl(cells, ds[Len(fs) + 1], by)
       IN  AllocDecls(a.cells, ds, Append(fs, a.f), by)

\* the slots of the Functions array that the parser allocated for a class
\* with n methods of its own
ParserCapacity(n) == PolicyCapacity(n)

\* the memory when vtkParseMerge_Merge(info, merge, super) is entered,
\* root the declarations of the root and decl those of the ancestor "A"
MkHeap(root, decl) ==
  LET r == AllocDecls(<< >>, root, << >>, "root")
      s == AllocDecls(r.cells, decl, << >>, "super")
  IN  [ cells |-> s.cells, decl |-> decl, ClassName |-> "A",
        super |-> s.fs, merge |-> r.fs,
        capacity |-> ParserCapacity(Len(root)),
        from |-> [j \in 1..Len(root) |-> 0],
        fill |-> [j \in 1..Len(root) |-> 0], i |-> 0 ]

(***************************************************************************)
(* One call of vtkParseMerge_Merge on the allocations, followed by the     *)
(* release of the declarations of the ancestor.                            *)
(***************************************************************************)
InitCopy ==
  /\ pc = "mem"
  /\ heap \in { MkHeap(root, decl) : root \in RootDeclLists, decl \in SuperDeclLists }
  /\ world = NoWorld
  /\ data = << >>
  /\ walk = NoWalk
  /\ info = NewInfo
  /\ merge = [ClassName |-> RootName, NumberOfFunctions |-> 0, Functions |-> << >>]
  /\ frame = NoFrame
  /\ op = NoOp
  /\ ret = 0
  /\ calls = 0
  /\ steps = 0

\* one pass of the loop of vtkParseMerge_Merge.  The store to
\* merge->Functions[m] is made whatever the size of the array: when slot m
\* is outside of it, the store lands in the memory behind the array or the
\* process ends with a fault.
MergeMemStep ==
  /\ pc = "mem"
  /\ heap.i < Len(heap.super)
  /\ \E h \in { MergeMemBody(heap, heap.i + 1) } :
       /\ heap' = h
       /\ \/ pc' = "mem"
          \/ /\ Len(h.merge) > Len(heap.merge)
             /\ Len(heap.merge) >= heap.capacity
             /\ pc' = "fault"
  /\ UNCHANGED <<info, merge, frame, op, ret, calls, steps, world, data, walk>>

\* "return depth;"
MergeMemReturn ==
  /\ pc = "mem"
  /\ heap.i >= Len(heap.super)
  /\ pc' = "memdone"
  /\ UNCHANGED <<info, merge, frame, op, ret, calls, steps, world, data, walk, heap>>

\* the owner of the ancestor's file releases it
FreeSuper ==
  /\ pc = "memdone"
  /\ pc' = "freed"
  /\ heap' = [heap EXCEPT !.cells = FreeTree(heap.cells, "super"), !.super = << >>]
  /\ UNCHANGED <<info, merge, frame, op, ret, calls, steps, world, data, walk>>

NextCopy ==
  \/ MergeMemStep
  \/ MergeMemReturn
  \/ FreeSuper

SpecCopy == InitCopy /\ [][NextCopy]_vars

(***************************************************************************)
(* Properties.                                                             *)
(***************************************************************************)
\* a pass of the loop of vtkParseMerge_Merge has just run for frame'.func
MergeStepTaken == pc = "merge" /\ pc' = "merge" /\ frame'.i = frame.i + 1

\* C2: once the MergeInfo is created, the class-name registry holds no name
\* twice and the name of the root class is at index 0, whatever sequence of
\* vtkParseMerge_Merge and vtkParseMerge_PushClass calls follows.
C2_RegistryUnique ==
  pc # "new" =>
    /\ info.NumberOfClasses >= 1
    /\ info.ClassNames[1] = merge.ClassName
    /\ \A a, b \in 1..info.NumberOfClasses :
         info.ClassNames[a] = info.ClassNames[b] => a = b

\* C2 witness: with the registry D, A, B the class at index 1 is merged
\* again (the second path of a diamond) and no name is added.
C2_Witness ==
  /\ pc = "merge" /\ calls = 3
  /\ frame.depth = 1
  /\ info.NumberOfClasses = 3

\* C3: no registry index appears twice in the override chain of a
\* flattened method.
C3_ChainUnique ==
  pc # "new" =>
    \A i \in 0..(info.NumberOfFunctions - 1) :
      \A a, b \in 1..info.NumberOfOverrides[i + 1] :
        ChainOf(info, i)[a] = ChainOf(info, i)[b] => a = b

\* C3 witness: vtkParseMerge_PushOverride was called for a method whose
\* chain is just the index of the ancestor being merged: the ancestor is
\* merged again, or declares the signature twice.
C3_Witness ==
  /\ pc = "merge" /\ frame.depth >= 1
  /\ \E j \in frame.merged : ChainOf(info, j) = <<frame.depth>>

\* C4: the MergeInfo has as many override chains as the flattened class has
\* methods, and every chain holds at least one element.
C4_Lockstep ==
  pc # "new" =>
    /\ info.NumberOfFunctions = merge.NumberOfFunctions
    /\ Len(merge.Functions) = merge.NumberOfFunctions
    /\ \A i \in 1..info.NumberOfFunctions : info.NumberOfOverrides[i] >= 1

\* C4 witness: a merge has appended a method to a root with own methods.
C4_Witness ==
  /\ pc = "merge" /\ frame.i >= 1
  /\ merge.NumberOfFunctions = 3
  /\ ChainOf(info, 2) = <<frame.depth>>

\* func is unnamed, or the constructor or destructor of the class super
Excluded(func, super) ==
  func.Name = NULL \/ func.Name = super \/ func.Name = Tilde(super)

\* the flattened entry e has the name and the argument type codes of func
SameSignature(e, func) ==
  /\ e.Name = func.Name
  /\ Len(e.ArgTypes) = Len(func.ArgTypes)
  /\ \A k \in 1..Len(e.ArgTypes) : e.ArgTypes[k] = func.ArgTypes[k]

\* C1 (as claimed): an ancestor method whose name is the name of a flattened
\* entry, but whose argument type codes differ from those of every entry of
\* that name, is appended as a new entry with the chain <<depth>>.
C1_OverloadAppended ==
  [][ MergeStepTaken =>
        LET f == frame'.func
            m == merge.NumberOfFunctions
        IN  ( /\ ~Excluded(f, frame.super)
              /\ \E j \in 1..m : merge.Functions[j].Name = f.Name
              /\ \A j \in 1..m : ~SameSignature(merge.Functions[j], f) )
            => /\ merge'.NumberOfFunctions = m + 1
               /\ SameSignature(merge'.Functions[m + 1], f)
               /\ ChainOf(info', m) = <<frame.depth>>
    ]_vars

\* C5: when an ancestor method that is not excluded has the signature of a
\* flattened entry, no entry is added; the entry keeps its name and argument
\* types, its virtual flag becomes the OR of both flags, its comment becomes
\* the ancestor's only if it had none, and the registry index of the
\* ancestor is in the entry's override chain.
C5_MergeInPlace ==
  [][ MergeStepTaken =>
        LET f == frame'.func
        IN  \A j \in 1..merge.NumberOfFunctions :
              LET e == merge.Functions[j]
                  e2 == merge'.Functions[j]
              IN  (~Excluded(f, frame.super) /\ SameSignature(e, f)) =>
                    /\ merge'.NumberOfFunctions = merge.NumberOfFunctions
                    /\ info'.NumberOfFunctions = info.NumberOfFunctions
                    /\ SameSignature(e2, e)
                    /\ e2.ReturnType = e.ReturnType
                    /\ e2.IsVirtual =
                         (IF e.IsVirtual = 1 \/ f.IsVirtual = 1 THEN 1 ELSE 0)
                    /\ e2.Comment =
                         (IF e.Comment = NULL THEN f.Comment ELSE e.Comment)
                    /\ frame.depth \in ChainValues(info', j - 1)
                    /\ IsPrefix(ChainOf(info, j - 1), ChainOf(info', j - 1))
    ]_vars

\* C5 witness: an ancestor at index 2 was merged into an entry that had a
\* comment already and a chain of two classes; the entry did not take the
\* different comment of the ancestor.
C5_Witness ==
  /\ pc = "merge" /\ frame.i >= 1 /\ frame.depth = 2
  /\ \E j \in frame.merged :
       /\ ChainOf(info, j) = <<0, 1, 2>>
       /\ frame.func.Comment # NULL
       /\ merge.Functions[j + 1].Comment # NULL
       /\ merge.Functions[j + 1].Comment # frame.func.Comment

\* C6 (as claimed): an unnamed method, the constructor and the destructor of
\* the ancestor change neither the flattened class nor the MergeInfo, and no
\* pass of the merge changes a constructor or destructor entry of the root
\* or its override chain.
C6_CtorDtorExcluded ==
  [][ MergeStepTaken =>
        /\ Excluded(frame'.func, frame.super) =>
             (merge' = merge /\ info' = info)
        /\ \A j \in 1..merge.NumberOfFunctions :
             ( /\ merge.Functions[j].Name
                    \in {merge.ClassName, Tilde(merge.ClassName)}
               /\ ChainOf(info, j - 1)[1] = 0 )
             => /\ merge'.Functions[j] = merge.Functions[j]
                /\ ChainOf(info', j - 1) = ChainOf(info, j - 1)
    ]_vars

\* C7: for an ancestor method that is not excluded, merge_function and
\* vtkParseMerge_PushOverride are applied to a flattened entry exactly when
\* the names are equal and the argument type codes are equal in length and
\* element by element; every other entry and its chain stay as they are.
C7_MatchIffSignature ==
  [][ MergeStepTaken =>
        LET f == frame'.func
        IN  ~Excluded(f, frame.super) =>
              \A j \in 1..merge.NumberOfFunctions :
                /\ ((j - 1) \in frame'.merged) <=> SameSignature(merge.Functions[j], f)
                /\ (j - 1) \in frame'.merged =>
                      frame.depth \in ChainValues(info', j - 1)
                /\ (j - 1) \notin frame'.merged =>
                      /\ merge'.Functions[j] = merge.Functions[j]
                      /\ ChainOf(info', j - 1) = ChainOf(info, j - 1)
    ]_vars

\* C7 witness: a method was merged into an entry whose return type differs
\* from its own, next to an entry of the same name and other argument types
\* that was left alone.
C7_Witness ==
  /\ pc = "merge" /\ frame.i >= 1
  /\ \E j \in frame.merged :
       merge.Functions[j + 1].ReturnType # frame.func.ReturnType
  /\ \E j \in 1..merge.NumberOfFunctions :
       /\ (j - 1) \notin frame.merged
       /\ merge.Functions[j].Name = frame.func.Name

\* C8: a call of vtkParseMerge_PushClass returns an index at which the
\* name is stored afterwards; when the name was stored already, it returns
\* the index it was stored at and leaves the MergeInfo as it was.
C8_PushClassStable ==
  [][ op'.fn = "PushClass" =>
        LET n == info.NumberOfClasses
            at == { k \in 0..(n - 1) : info.ClassNames[k + 1] = op'.name }
        IN  /\ ret' \in 0..(info'.NumberOfClasses - 1)
            /\ info'.ClassNames[ret' + 1] = op'.name
            /\ at # {} => (info' = info /\ ret' \in at)
            /\ at = {} => (ret' = n /\ info'.NumberOfClasses = n + 1)
    ]_vars

\* C8 witness: the first name is pushed again after the registry has been
\* reallocated at 4, 8 and 16 names, and index 0 is returned.
C8_Witness ==
  /\ pc = "push" /\ op.fn = "PushClass" /\ op.name = NamePool[1]
  /\ ret = 0 /\ info.NumberOfClasses = 17

\* C9 (as claimed): vtkParseMerge_PushOverride(info, i, depth) returns the
\* position of depth in the override chain of method i.
C9_PushOverridePosition ==
  [][ op'.fn = "PushOverride" =>
        /\ ret' \in 0..(info'.NumberOfOverrides[op'.i + 1] - 1)
        /\ info'.OverrideClasses[op'.i + 1][ret' + 1] = op'.depth
    ]_vars

\* C10: across every push, reallocating or not, the stored class names, the
\* list of override chains and the elements of every chain before the call
\* are a prefix of those after it; vtkParseMerge_PushClass and
\* vtkParseMerge_PushFunction leave every existing count and chain as it is.
C10_PrefixKept ==
  [][ /\ IsPrefix(Registry(info), Registry(info'))
      /\ info.NumberOfFunctions <= info'.NumberOfFunctions
      /\ \A i \in 0..(info.NumberOfFunctions - 1) :
           /\ IsPrefix(ChainOf(info, i), ChainOf(info', i))
           /\ op'.fn \in {"PushClass", "PushFunction"} =>
                /\ info'.NumberOfOverrides[i + 1] = info.NumberOfOverrides[i + 1]
                /\ ChainOf(info', i) = ChainOf(info, i)
    ]_vars

\* C10 witness: the class names, the chain list and the chain of method 0
\* have all been reallocated at four elements.
C10_Witness ==
  /\ pc = "push"
  /\ info.NumberOfClasses >= 5 /\ Len(info.ClassNames) = 8
  /\ info.NumberOfFunctions >= 5 /\ Len(info.OverrideClasses) = 8
  /\ info.NumberOfOverrides[1] >= 5 /\ Len(info.OverrideClasses[1]) = 8

\* C11 (as claimed): the class names, the per-method arrays and every
\* override chain have the capacity of one growth policy (0 when empty, 4
\* after the first insert, doubled when the size is a power of two >= 4),
\* and never hold more elements than that.
C11_OneGrowthPolicy ==
  pc = "push" =>
    /\ Len(info.ClassNames) = PolicyCapacity(info.NumberOfClasses)
    /\ info.NumberOfClasses <= Len(info.ClassNames)
    /\ Len(info.OverrideClasses) = PolicyCapacity(info.NumberOfFunctions)
    /\ Len(info.NumberOfOverrides) = PolicyCapacity(info.NumberOfFunctions)
    /\ \A i \in 0..(info.NumberOfFunctions - 1) :
         /\ Len(info.OverrideClasses[i + 1])
              = PolicyCapacity(info.NumberOfOverrides[i + 1])
         /\ info.NumberOfOverrides[i + 1] <= Len(info.OverrideClasses[i + 1])


(***************************************************************************)
(* Properties of the walk.                                                 *)
(***************************************************************************)
\* vtkWrapXML_MergeSuperClasses was called for class number walk.next and
\* has returned or has ended the process
Requested == pc \in {"print", "exited"}

\* the class of the request as the parser delivered it
RootDecl == world.files[MainFile].Classes[walk.next]

\* the base classes of the request that the input file declares / does not
LocalBases ==
  { RootDecl.SuperClasses[k] : k \in 1..Len(RootDecl.SuperClasses) }
    \cap { data[k].Name : k \in 1..Len(data) }
ForeignBases ==
  { RootDecl.SuperClasses[k] : k \in 1..Len(RootDecl.SuperClasses) }
    \ { data[k].Name : k \in 1..Len(data) }

\* the calls of the include search, of fopen and of the parser in the log
LoaderEvents ==
  { k \in 1..Len(walk.log) : walk.log[k].e \in {"find", "open", "parse"} }

\* C12 (as claimed): without a hierarchy index, a base class that the input
\* file declares is still resolved, without I/O: a MergeInfo is returned,
\* the base is in its registry, and every inherited method of the base has
\* an entry of its name in the flattened class.
C12_LocalOnly ==
  (pc = "print" /\ ~world.HierarchyFileName) =>
    \A b \in LocalBases :
      /\ walk.created
      /\ \E k \in 1..info.NumberOfClasses : info.ClassNames[k] = b
      /\ LoaderEvents = {}
      /\ LET decl == data[FindClass(data, b)]
         IN  \A i \in 1..decl.NumberOfFunctions :
               ~Excluded(decl.Functions[i], b) =>
                 \E j \in 1..merge.NumberOfFunctions :
                   merge.Functions[j].Name = decl.Functions[i].Name

\* C13: without a hierarchy index, the request for a class with a base
\* that the input file does not declare returns, with no exit and no call
\* of the include search, fopen or the parser, and the class keeps exactly
\* its own methods.
C13_TruncatedWithoutIndex ==
  (Requested /\ ~world.HierarchyFileName /\ ForeignBases # {}) =>
    /\ pc = "print"
    /\ walk.status = "returned" /\ walk.code = 0 /\ walk.diag = << >>
    /\ LoaderEvents = {}
    /\ merge.Functions = RootDecl.Functions

\* C13 witness: such a request has returned for a class with a method of
\* its own, whose base is declared with methods by a header that the index
\* on disk names.
C13_Witness ==
  /\ pc = "print" /\ ~world.HierarchyFileName
  /\ merge.NumberOfFunctions >= 1
  /\ \E b \in ForeignBases :
       /\ b \in DOMAIN world.hier
       /\ \E k \in 1..Len(world.files[world.hier[b]].Classes) :
            /\ world.files[world.hier[b]].Classes[k].Name = b
            /\ world.files[world.hier[b]].Classes[k].NumberOfFunctions >= 1

\* the names of the classes that header h declares
DeclaredIn(h) ==
  { world.files[h].Classes[k].Name : k \in 1..Len(world.files[h].Classes) }

\* the base classes that the files of the run declare for class c
SupersOf(c) ==
  UNION { UNION { { world.files[h].Classes[k].SuperClasses[x] :
                      x \in 1..Len(world.files[h].Classes[k].SuperClasses) } :
                  k \in { y \in 1..Len(world.files[h].Classes) :
                            world.files[h].Classes[y].Name = c } } :
          h \in DOMAIN world.files }

RECURSIVE Ancestors(_, _)
\* the classes reached from c over at most n base-class declarations
Ancestors(c, n) ==
  IF n = 0 THEN {}
  ELSE SupersOf(c) \cup UNION { Ancestors(b, n - 1) : b \in SupersOf(c) }

\* no class is its own base, directly or over other classes
Acyclic == \A c \in WalkNames : c \notin Ancestors(c, Cardinality(WalkNames))

\* C14 (as claimed): within one walk over an acyclic hierarchy, the include
\* search is called only for a class that neither the input file nor a
\* header parsed earlier in the walk declares, and no header is parsed
\* twice.
C14_LoadedOnce ==
  (Requested /\ Acyclic) =>
    \A k \in 1..Len(walk.log) :
      /\ walk.log[k].e = "find" =>
           /\ walk.log[k].name \notin DeclaredIn(MainFile)
           /\ \A j \in 1..(k - 1) :
                walk.log[j].e = "parse" =>
                  walk.log[k].name \notin DeclaredIn(walk.log[j].header)
      /\ walk.log[k].e = "parse" =>
           \A j \in 1..(k - 1) :
             walk.log[j].e = "parse" => walk.log[j].header # walk.log[k].header

\* the log ends with the call that failed: the include search for a header
\* it does not find, fopen of a header that does not open, or the parser
\* on a header it rejects
FailedLoad(ev) ==
  \/ ev.e = "find" /\ ~world.files[ev.header].located
  \/ ev.e = "open" /\ ~world.files[ev.header].opens
  \/ ev.e = "parse" /\ ~world.files[ev.header].parses

SupersSeq(c) ==
  LET h == CHOOSE f \in DOMAIN world.files : c \in DeclaredIn(f)
  IN  world.files[h].Classes[FindClass(world.files[h].Classes, c)].SuperClasses

\* the last element of a sequence that is not empty
Last(q) == q[Len(q)]

\* C16: a base name without index entry, or whose header parses without
\* declaring the class, is passed over: between the call for it and the
\* point where it is given up only the loader is called, nothing is
\* registered or flattened, the name is not in the registry unless the
\* walk merges it elsewhere, and the next call of the walk is the one for
\* the next base of the same class (or, after the last base, one further
\* up); if there is none, the walk has returned without exit.
C16_SilentTruncation ==
  Requested =>
    \A k \in 1..Len(walk.log) :
      walk.log[k].e \in {"noentry", "noclass"} =>
        LET ev == walk.log[k]
            k0 == Max({ j \in 1..k : walk.log[j].e = "call" })
            call == walk.log[k0]
            S == SupersSeq(Last(ev.path))
        IN  /\ call.name = ev.name /\ call.path = ev.path
            /\ \A j \in (k0 + 1)..(k - 1) :
                 walk.log[j].e \in {"find", "open", "parse"}
            /\ ev.nc = call.nc /\ ev.nf = call.nf
            /\ (\A j \in 1..Len(walk.log) :
                  ~(walk.log[j].e = "merge" /\ walk.log[j].name = ev.name))
               => \A c \in 1..info.NumberOfClasses : info.ClassNames[c] # ev.name
            /\ IF k = Len(walk.log)
               THEN /\ pc = "print" /\ walk.status = "returned" /\ walk.code = 0
                    /\ call.ix + 1 = Len(S)
                    /\ info.NumberOfClasses = ev.nc
                    /\ merge.NumberOfFunctions = ev.nf
               ELSE LET nx == walk.log[k + 1]
                    IN  /\ nx.e = "call" /\ nx.nc = ev.nc /\ nx.nf = ev.nf
                        /\ IF call.ix + 1 < Len(S)
                           THEN /\ nx.path = ev.path /\ nx.ix = call.ix + 1
                                /\ nx.name = S[call.ix + 2]
                           ELSE Len(nx.path) < Len(ev.path)

\* C16 witness: the first base of the class has no index entry, the second
\* base was merged after it, and the walk has returned.
C16_Witness ==
  /\ pc = "print" /\ walk.created
  /\ \E k \in 1..(Len(walk.log) - 1) :
       /\ walk.log[k].e = "noentry" /\ Len(walk.log[k].path) = 1
       /\ walk.log[k + 1].e = "call" /\ walk.log[k + 1].ix = 1
       /\ \E j \in (k + 1)..Len(walk.log) :
            walk.log[j].e = "merge" /\ walk.log[j].nf > walk.log[k].nf

\* the declaration of class c in the file that declares it
OwnDecl(c) ==
  LET h == CHOOSE f \in DOMAIN world.files : c \in DeclaredIn(f)
  IN  world.files[h].Classes[FindClass(world.files[h].Classes, c)]

\* class c declares itself a method that its heirs inherit and that has
\* the signature of the flattened entry e
DeclaresMatch(c, e) ==
  \E i \in 1..OwnDecl(c).NumberOfFunctions :
    /\ ~Excluded(OwnDecl(c).Functions[i], c)
    /\ SameSignature(e, OwnDecl(c).Functions[i])

\* the registry indices of the classes that the walk has merged and that
\* declare a match of entry e
MatchingVisited(e) ==
  { walk.log[k].ix : k \in { x \in 1..Len(walk.log) :
                               /\ walk.log[x].e = "merge"
                               /\ DeclaresMatch(walk.log[x].name, e) } }

\* C17 (as claimed): when the walk has returned, the chain of every
\* flattened method holds exactly the registry indices of the merged
\* classes whose own declaration has a method of that signature, and index
\* 0 for a method of the root itself, in increasing order.
C17_ChainsExact ==
  (pc = "print" /\ walk.created) =>
    \A j \in 1..merge.NumberOfFunctions :
      /\ ChainValues(info, j - 1)
           = MatchingVisited(merge.Functions[j])
               \cup (IF j <= RootDecl.NumberOfFunctions THEN {0} ELSE {})
      /\ \A a, b \in 1..info.NumberOfOverrides[j] :
           a < b => ChainOf(info, j - 1)[a] < ChainOf(info, j - 1)[b]

\* the chains are exact in a request before which no class of the input
\* file has been flattened
FreshChainsExact ==
  (\A k \in 1..Len(data) :
     k # walk.next => data[k] = world.files[MainFile].Classes[k])
    => C17_ChainsExact

\* C18 (as claimed): a class that is among the classes the walk is below
\* is not merged again, and the walk does not recurse until the stack ends.
C18_CycleDetected ==
  Requested =>
    /\ walk.status # "overflow"
    /\ \A k \in 1..Len(walk.log) :
         walk.log[k].e = "merge" =>
           \A x \in 1..Len(walk.log[k].path) :
             walk.log[k].path[x] # walk.log[k].name

\* C19 (as claimed): the outcome of the request for a class, its MergeInfo
\* and its flattened methods are those of the same request made on the
\* input file as the parser delivered it, whatever requests came before.
C19_RequestsIndependent ==
  (pc = "print" /\ RootDecl.NumberOfSuperClasses > 0) =>
    \A fresh \in { MergeSuperClasses(world, world.files[MainFile].Classes,
                                     walk.next) } :
      /\ fresh.status = "run"
      /\ walk.created = fresh.created
      /\ info = fresh.info
      /\ merge = fresh.merge

\* the char pointers of a FunctionInfo that the claim names
StringsOf(f) ==
  { f.Name, f.Comment, f.Signature, f.ReturnClass }
  \cup { f.ArgClasses[k] : k \in 1..f.NumberOfArguments }

\* the pointer is null or points to an allocation that has not been freed
\* and that the parser did not make for the file of the ancestor
OwnedCopy(p) ==
  p # NullPtr => heap.cells[p].live /\ heap.cells[p].by # "super"

\* the strings of entry f are those of the declaration d, the comment
\* aside
SameStrings(f, d) ==
  /\ TextOf(heap.cells, f.Name) = d.Name
  /\ TextOf(heap.cells, f.Signature) = d.Signature
  /\ TextOf(heap.cells, f.ReturnClass) = d.ReturnClass
  /\ f.NumberOfArguments = d.NumberOfArguments
  /\ \A k \in 1..d.NumberOfArguments :
       TextOf(heap.cells, f.ArgClasses[k]) = d.ArgClasses[k]

\* C20: during vtkParseMerge_Merge, after it and after the declarations of
\* the ancestor have been released, every entry the merge appended has its
\* name, comment, signature, argument class names and return class name in
\* allocations of its own that hold the strings of the ancestor's
\* declaration, and so has every comment the merge filled in.
C20_OwnedCopies ==
  pc \in {"mem", "memdone", "freed", "fault"} =>
    \A j \in 1..Len(heap.merge) :
      /\ heap.from[j] # 0 =>
           /\ \A p \in StringsOf(heap.merge[j]) : OwnedCopy(p)
           /\ SameStrings(heap.merge[j], heap.decl[heap.from[j]])
           /\ heap.fill[j] = 0 =>
                TextOf(heap.cells, heap.merge[j].Comment)
                  = heap.decl[heap.from[j]].Comment
      /\ heap.fill[j] # 0 =>
           /\ heap.merge[j].Comment # NullPtr
           /\ OwnedCopy(heap.merge[j].Comment)
           /\ TextOf(heap.cells, heap.merge[j].Comment)
                = heap.decl[heap.fill[j]].Comment

\* the ancestor has been released after a merge that appended a method
\* with all five kinds of strings and filled in a comment
C20_Witness ==
  /\ pc = "freed"
  /\ \E j \in 1..Len(heap.merge) :
       /\ heap.from[j] # 0
       /\ \A p \in StringsOf(heap.merge[j]) : p # NullPtr
       /\ heap.merge[j].NumberOfArguments > 0
  /\ \E j \in 1..Len(heap.merge) : heap.fill[j] # 0
  /\ \E k \in 1..Len(heap.cells) : ~heap.cells[k].live

\* C21: no step of the merge removes or moves an entry of the flattened
\* list or changes its name or argument types, so the methods of the root
\* stay at the front in their order; a step adds at most one entry, at the
\* end, and it is the copy of the ancestor method the pass was run for.
C21_AppendOnly ==
  [][ pc # "new" =>
        LET m == merge.NumberOfFunctions
        IN  /\ merge'.NumberOfFunctions \in {m, m + 1}
            /\ Len(merge'.Functions) = merge'.NumberOfFunctions
            /\ \A j \in 1..m :
                 /\ merge'.Functions[j].Name = merge.Functions[j].Name
                 /\ merge'.Functions[j].ArgTypes = merge.Functions[j].ArgTypes
            /\ merge'.NumberOfFunctions = m + 1 =>
                 /\ MergeStepTaken
                 /\ merge'.Functions[m + 1] = copy_function(frame'.func)
    ]_vars

\* C21 witness: two ancestors have each added a method behind the two
\* methods of the root.
C21_Witness ==
  /\ pc = "idle" /\ calls >= 2
  /\ info.NumberOfClasses = 3
  /\ merge.NumberOfFunctions = 4
  /\ ChainOf(info, 0) = <<0>> /\ ChainOf(info, 1) = <<0>>
  /\ ChainOf(info, 2) = <<1>> /\ ChainOf(info, 3) = <<2>>

\* the "merge" events of the log, in the order of the log
MergeEvents == SelectSeq(walk.log, LAMBDA ev : ev.e = "merge")

RECURSIVE FirstMet(_, _)
\* the names of the sequence q behind those of acc, each name once, in the
\* order of its first occurrence
FirstMet(acc, q) ==
  IF q = << >> THEN acc
  ELSE IF \E k \in 1..Len(acc) : acc[k] = q[1]
  THEN FirstMet(acc, Tail(q))
  ELSE FirstMet(Append(acc, q[1]), Tail(q))

\* q without its last element
Front(q) == SubSeq(q, 1, Len(q) - 1)

\* the event is part of the visit of class c reached by the path p
Below(ev, p, c) ==
  LET q == Append(p, c)
      r == IF ev.e = "merge" THEN Append(ev.path, ev.name) ELSE ev.path
  IN  IsPrefix(q, r)

\* C22: the walk is a pre-order depth-first traversal.  The first base of
\* a resolved ancestor is resolved right after the ancestor was merged, when
\* the ancestor is in the registry and each of its inheritable methods has
\* an entry of its name in the flattened list; all that the visit of one
\* base does comes before the next base of the same class is resolved; and
\* the registry lists the root and the merged classes in the order in which
\* the walk first merged them.
C22_PreOrder ==
  (Requested /\ walk.created) =>
    /\ Registry(info)
         = FirstMet(<<data[walk.next].Name>>,
                    [k \in 1..Len(MergeEvents) |-> MergeEvents[k].name])
    /\ \A k \in 1..Len(walk.log) :
         LET ev == walk.log[k]
         IN  (ev.e = "call" /\ ev.ix = 0 /\ Len(ev.path) >= 2) =>
               /\ k > 1
               /\ LET mg == walk.log[k - 1]
                      c == Last(ev.path)
                  IN  /\ mg.e = "merge" /\ mg.name = c
                      /\ mg.path = Front(ev.path)
                      /\ mg.nc = ev.nc /\ mg.nf = ev.nf
                      /\ \E x \in 1..ev.nc : info.ClassNames[x] = c
                      /\ \A f \in 1..Len(OwnDecl(c).Functions) :
                           LET func == OwnDecl(c).Functions[f]
                           IN  ~Excluded(func, c) =>
                                 \E j \in 1..ev.nf :
                                   merge.Functions[j].Name = func.Name
    /\ \A k1, k2 \in 1..Len(walk.log) :
         LET c1 == walk.log[k1]
             c2 == walk.log[k2]
         IN  ( /\ k1 < k2 /\ c1.e = "call" /\ c2.e = "call"
               /\ c1.path = c2.path /\ c2.ix = c1.ix + 1 ) =>
               \A k \in 1..Len(walk.log) :
                 (walk.log[k].e = "merge" /\ Below(walk.log[k], c1.path, c1.name))
                   => (k1 < k /\ k < k2)

\* C22 witness: for D with the bases B and C, where B has the base A, the
\* walk has returned with the registry D, B, A, C.
C22_Witness ==
  /\ pc = "print" /\ walk.created
  /\ data[walk.next].Name = "D"
  /\ SupersSeq("D") = <<"B", "C">> /\ SupersSeq("B") = <<"A">>
  /\ Registry(info) = <<"D", "B", "A", "C">>

\* the include search, fopen and the parser succeed for every header
LoadsSucceed ==
  \A h \in DOMAIN world.files :
    world.files[h].located /\ world.files[h].opens /\ world.files[h].parses

RECURSIVE Height(_, _)
\* the number of base-class declarations on the longest chain that starts
\* at class c, n bounding the length
Height(c, n) ==
  IF n = 0 \/ SupersOf(c) = {} THEN 0
  ELSE 1 + Max({ Height(b, n - 1) : b \in SupersOf(c) })

\* the events of kind e that the log holds for the class name reached by
\* the path
EventsOf(kinds, path, name) ==
  { k \in 1..Len(walk.log) :
      /\ walk.log[k].e \in kinds
      /\ walk.log[k].path = path /\ walk.log[k].name = name }

C24_AppendInBounds ==
  (pc \in {"mem", "memdone", "freed", "fault"} /\ heap.capacity > 0) =>
    Len(heap.merge) <= heap.capacity

\* the flattened entry number j (from 1) was appended by a merge: its
\* override chain does not start with the root
Appended(inf, j) == ChainOf(inf, j - 1)[1] # 0

\* C25: a pass of vtkParseMerge_Merge appends the ancestor method only if
\* no named entry of the flattened list has its name; when an entry has
\* its name and no entry has its name and argument types, the pass changes
\* neither the flattened class nor the MergeInfo; and no entry appended by
\* a merge has the name of an entry before it.
C25_AppendByName ==
  [][ /\ MergeStepTaken =>
          LET f == frame'.func
              m == merge.NumberOfFunctions
              named == \E j \in 1..m : merge.Functions[j].Name # NULL
                                        /\ merge.Functions[j].Name = f.Name
          IN  /\ merge'.NumberOfFunctions = m + 1 => ~named
              /\ ( /\ ~Excluded(f, frame.super)
                   /\ named
                   /\ \A j \in 1..m : ~SameSignature(merge.Functions[j], f) )
                 => (merge' = merge /\ info' = info)
      /\ pc' # "new" =>
          \A j \in 1..merge'.NumberOfFunctions :
            Appended(info', j) =>
              /\ merge'.Functions[j].Name # NULL
              /\ \A i \in 1..(j - 1) :
                   merge'.Functions[i].Name # merge'.Functions[j].Name
    ]_vars

\* C25 witness: the pass for an ancestor method found an entry of its name
\* and no entry of its name and argument types, and the flattened list
\* also holds an entry that a merge appended.
C25_Witness ==
  /\ pc = "merge" /\ frame.i >= 1
  /\ ~Excluded(frame.func, frame.super)
  /\ \E j \in 1..merge.NumberOfFunctions :
       merge.Functions[j].Name = frame.func.Name
  /\ \A j \in 1..merge.NumberOfFunctions :
       ~SameSignature(merge.Functions[j], frame.func)
  /\ \E j \in 1..merge.NumberOfFunctions : Appended(info, j)

TypeOK ==
  /\ pc \in {"new", "idle", "merge", "push", "wrap", "print", "exited"}
  /\ info.NumberOfClasses \in Nat
  /\ calls \in 0..MaxCalls

====
